---- MODULE Spec2Model ----
(***************************************************************************)
(* Model of the Telco churn dashboard script (src/main.py).                *)
(*                                                                         *)
(* The script is a Streamlit page: every session re-executes it top to     *)
(* bottom on each rerun, in a fresh namespace.  The only value that        *)
(* survives a rerun is the st.cache_data entry of load_data.  A data frame *)
(* is [cols, rows]: the set of its column names and the sequence of its    *)
(* rows, a row being a function from the column names to values.           *)
(*                                                                         *)
(* churn_percentage is a Python float churn_count / total_users * 100.     *)
(* The model keeps it as the reduced fraction [n, d] of that quotient:     *)
(* for the small counts of the model two such floats are equal exactly     *)
(* when the fractions are, and order as the fractions do.                  *)
(***************************************************************************)
EXTENDS Integers, Sequences, FiniteSets, TLC

\* ------------------------------------------------------------------ bounds
\* Largest number of rows of telco.csv.
MaxRows == 2
\* Largest number of script runs a session makes (first run plus reruns).
MaxRuns == 3
\* Largest rotation of the order in which a non-stable sort leaves equal keys.
MaxTieRot == 0
\* Session identifiers available to the server.
NumSessions == 2
\* Largest age (and, negated, smallest) the grouping functions are compared on.
MaxAge == 60
\* Number of rows of the files the age table is computed from.
MaxAgeRows == 3

SessionIds == 1..NumSessions

\* ------------------------------------------------------- program constants
service_columns ==
  << "Phone Service", "Internet Service", "Multiple Lines",
     "Streaming TV", "Streaming Movies", "Streaming Music",
     "Online Security", "Online Backup", "Device Protection Plan",
     "Premium Tech Support", "Unlimited Data" >>

\* head(10) of the sorted statistics.
TopK == 10

GenderOptions == {"All", "Male", "Female"}
ChurnOptions == {"Yes", "No"}

TENURE_BINS == << 0, 6, 12, 24, 36, 48, 60 >>
TENURE_LABELS ==
  << "0-6 months", "7-12 months", "13-24 months", "25-36 months",
     "37-48 months", "49-60 months", "61+ months" >>

\* ------------------------------------------------------------- data frames
Services == { service_columns[i] : i \in 1..Len(service_columns) }

BaseColumns ==
  {"Gender", "Churn Label", "Age", "Tenure in Months", "Churn Reason",
   "Churn Category"} \cup Services

NaN == "NaN"

\* One row of telco.csv: every service in yes holds 'Yes', the others 'No';
\* reason = << Churn Reason, Churn Category >>, both empty cells (NaN) for a
\* customer who stayed.
Customer(gender, churn, yes, age, tenure, reason) ==
  [ c \in BaseColumns |->
      CASE c = "Gender" -> gender
        [] c = "Churn Label" -> churn
        [] c = "Age" -> age
        [] c = "Tenure in Months" -> tenure
        [] c = "Churn Reason" -> reason[1]
        [] c = "Churn Category" -> reason[2]
        [] OTHER -> IF c \in yes THEN "Yes" ELSE "No" ]

Stayed == << NaN, NaN >>
BetterOffer == << "Competitor made better offer", "Competitor" >>
PriceTooHigh == << "Price too high", "Price" >>

\* The customers telco.csv is drawn from.
Customers ==
  << Customer("Male", "Yes", {"Phone Service", "Internet Service", "Unlimited Data"},
              25, 3, BetterOffer),
     Customer("Male", "No", {"Phone Service", "Internet Service", "Online Security"},
              55, 30, Stayed),
     Customer("Female", "No", {"Internet Service", "Streaming TV", "Unlimited Data"},
              30, 61, Stayed),
     Customer("Male", "Yes", {}, 50, 0, PriceTooHigh),
     Customer("Female", "Yes", Services, 45, 7, BetterOffer) >>

\* The row lists of at most n customers.  No statement of the script reads the
\* position of a row (it counts rows and filters them), so a file lists its
\* customers in the order of Customers, repeats allowed.
RowSeqs(n) ==
  { idx \in UNION { [1..k -> 1..Len(Customers)] : k \in 0..n } :
      \A i \in 1..(Len(idx) - 1) : idx[i] <= idx[i + 1] }

\* The frame whose rows are the customers idx names, without the columns missing.
MakeFrame(idx, missing) ==
  [ cols |-> BaseColumns \ missing,
    rows |-> [ i \in 1..Len(idx) |->
                 [ c \in BaseColumns \ missing |-> Customers[idx[i]][c] ] ] ]

\* The telco.csv files of the model: every service column present, or one absent.
Datasets ==
  { MakeFrame(idx, missing) :
      idx \in RowSeqs(MaxRows),
      missing \in {{}} \cup { {s} : s \in Services } }

\* df[df[col] == value]: the rows whose col holds value, in order.
RECURSIVE SelectRows(_, _, _)
SelectRows(rows, col, value) ==
  IF rows = << >> THEN << >>
  ELSE LET rest == SelectRows(Tail(rows), col, value)
       IN IF Head(rows)[col] = value THEN << Head(rows) >> \o rest ELSE rest

WhereEq(frame, col, value) ==
  [ cols |-> frame.cols, rows |-> SelectRows(frame.rows, col, value) ]

\* frame[col] = values: the column col holds values[i] in row i.
WithColumn(frame, col, values) ==
  [ cols |-> frame.cols \cup {col},
    rows |-> [ i \in 1..Len(frame.rows) |->
                 [ c \in frame.cols \cup {col} |->
                     IF c = col THEN values[i] ELSE frame.rows[i][c] ] ] ]

\* frame[col], the values of a column in row order.
Column(frame, col) == [ i \in 1..Len(frame.rows) |-> frame.rows[i][col] ]

Shape0(frame) == Len(frame.rows)

\* --------------------------------------------------------- load_data cache
\* Line 25; the model's files carry the first two of the four columns.
cols_to_change == {"Churn Reason", "Churn Category"}

\* Line 26: df_[cols_to_change].fillna('Unknown').
FillNa(frame, cols) ==
  [ cols |-> frame.cols,
    rows |-> [ i \in 1..Len(frame.rows) |->
                 [ c \in frame.cols |->
                     IF c \in cols /\ frame.rows[i][c] = NaN
                       THEN "Unknown" ELSE frame.rows[i][c] ] ] ]

\* Lines 20-27: the frame read from the file, its empty reason cells filled.
load_data(file) == FillNa(file, cols_to_change)

\* ------------------------------------------------------ section 5: filters
\* Lines 139-144: the copy of df, narrowed by gender unless "All", then by
\* churn label.
GenderFiltered(frame, gender) ==
  IF gender # "All" THEN WhereEq(frame, "Gender", gender) ELSE frame

FilterFrame(frame, gender, churn) ==
  WhereEq(GenderFiltered(frame, gender), "Churn Label", churn)

\* ------------------------------------------------- section 6: percentages
RECURSIVE GCD(_, _)
GCD(a, b) == IF b = 0 THEN a ELSE GCD(b, a % b)

Frac(n, d) == LET g == GCD(n, d) IN [ n |-> n \div g, d |-> d \div g ]
Zero == [ n |-> 0, d |-> 1 ]
Hundred == [ n |-> 100, d |-> 1 ]
\* The value of a division by zero: no float, the exception it raises.
DivError == [ n |-> 0, d |-> 0 ]

FracLess(a, b) == a.n * b.d < b.n * a.d
FracLeq(a, b) == a.n * b.d <= b.n * a.d

\* Line 160-161: service_users.shape[0].
ChurnCountNoMask(df_f, service) == Shape0(df_f)

ChurnCount(df_f, service) == Shape0(WhereEq(df_f, service, "Yes"))

\* Line 162: df[df[service] == 'Yes'].shape[0], over the unfiltered df.
TotalUsers(df_, service) == Shape0(WhereEq(df_, service, "Yes"))

ChurnPercentageUnguarded(churn_count_, total_users_) ==
  IF total_users_ = 0 THEN DivError ELSE Frac(churn_count_ * 100, total_users_)

\* Line 163: (churn_count / total_users * 100) if total_users > 0 else 0.

ChurnPercentage(churn_count_, total_users_) ==
  IF total_users_ > 0 THEN Frac(churn_count_ * 100, total_users_) ELSE Zero

\* Line 164: service_churn_dict[service] = churn_percentage.  A dict keeps
\* its keys in insertion order; assigning an existing key keeps its place.
StoreEntrySkipZero(dict, service, pct) ==
  IF pct = Zero THEN dict
  ELSE Append(dict, [ service |-> service, pct |-> pct ])

StoreEntry(dict, service, pct) ==
  IF \E i \in 1..Len(dict) : dict[i].service = service
    THEN [ i \in 1..Len(dict) |->
             IF dict[i].service = service
               THEN [ service |-> service, pct |-> pct ] ELSE dict[i] ]
    ELSE Append(dict, [ service |-> service, pct |-> pct ])

NoCounts == [ s \in {} |-> 0 ]

\* Lines 158-164: the loop from service_columns[i] on.  acc carries the dict
\* built so far, the two counts of every service visited, and the error
\* that ended the loop ("none" while it runs).
RECURSIVE ServiceLoop(_, _, _, _)
ServiceLoop(i, acc, df_, df_f) ==
  IF i > Len(service_columns) \/ acc.err # "none" THEN acc
  ELSE LET service == service_columns[i]
       IN IF service \notin df_f.cols \/ service \notin df_.cols
            THEN [ acc EXCEPT !.err = "KeyError" ]
            ELSE LET cc == ChurnCount(df_f, service)
                     tu == TotalUsers(df_, service)
                     pct == ChurnPercentage(cc, tu)
                     counted == [ acc EXCEPT
                                    !.churn_count = (service :> cc) @@ @,
                                    !.total_users = (service :> tu) @@ @ ]
                 IN IF pct = DivError
                      THEN [ counted EXCEPT !.err = "ZeroDivisionError" ]
                      ELSE ServiceLoop(i + 1,
                             [ counted EXCEPT
                                 !.dict = StoreEntry(@, service, pct) ],
                             df_, df_f)

ServiceChurn(df_, df_f) ==
  ServiceLoop(1, [ dict |-> << >>, churn_count |-> NoCounts,
                   total_users |-> NoCounts, err |-> "none" ], df_, df_f)

\* Line 166: pd.DataFrame(service_churn_dict, index=["Churn Percentage"]).T,
\* one row per key of the dict, in the dict's order.
ToDataFrame(dict) == dict

\* ------------------------------------------------------- line 172: ranking
\* sort_values(by="Churn Percentage", ascending=False) is called without
\* kind=, so pandas sorts with 'quicksort', which does not promise an order
\* among equal keys.  tie = [rot, rev] names the order the sort leaves equal
\* keys in: the input order rotated by rot, reversed when rev.  [0, FALSE]
\* is the order a stable sort gives.
TieBreaks == [ rot : 0..MaxTieRot, rev : BOOLEAN ]

TieKey(i, n, tie) ==
  LET k == (i - 1 + tie.rot) % n
  IN IF tie.rev THEN n - 1 - k ELSE k

\* Row i of stats comes before row j in the sorted frame.
BeforeAscending(stats, i, j, tie) ==
  \/ FracLess(stats[i].pct, stats[j].pct)
  \/ /\ stats[i].pct = stats[j].pct
     /\ TieKey(i, Len(stats), tie) < TieKey(j, Len(stats), tie)

Before(stats, i, j, tie) ==
  \/ FracLess(stats[j].pct, stats[i].pct)
  \/ /\ stats[i].pct = stats[j].pct
     /\ TieKey(i, Len(stats), tie) < TieKey(j, Len(stats), tie)

\* The sorted frame: row i lands after the rows that come before it.
SortValues(stats, tie) ==
  LET n == Len(stats)
      rank == [ i \in 1..n |->
                  Cardinality({ j \in 1..n : Before(stats, j, i, tie) }) ]
  IN [ k \in 1..n |-> stats[CHOOSE i \in 1..n : rank[i] = k - 1] ]

HeadRows(frame, k) ==
  SubSeq(frame, 1, IF k < Len(frame) THEN k ELSE Len(frame))

\* ------------------------------------------- sections 3 and 4: age, tenure
\* Lines 356-362 with the first test written age <= 30.
age_category_inclusive(age) ==
  IF age <= 30 THEN "(Under 30 years)"
  ELSE IF 30 <= age /\ age < 50 THEN "(30-50 years)"
  ELSE "(Over 50 years)"

\* Lines 356-362.
age_category(age) ==
  IF age < 30 THEN "(Under 30 years)"
  ELSE IF 30 <= age /\ age < 50 THEN "(30-50 years)"
  ELSE "(Over 50 years)"

\* Lines 435-441.
age_category_competition(age) ==
  IF age < 30 THEN "Under 30"
  ELSE IF 30 <= age /\ age < 50 THEN "30-50"
  ELSE "50+"

\* Line 364: df_filtered['Age'].apply(age_category).
AgeGroups(frame) ==
  LET age == Column(frame, "Age")
  IN [ i \in 1..Len(age) |-> age_category(age[i]) ]

\* Line 443: df_filtered['Age'].apply(age_category_competition).
CompetitionAgeGroups(frame) ==
  LET age == Column(frame, "Age")
  IN [ i \in 1..Len(age) |-> age_category_competition(age[i]) ]

\* ------------------------------------------------- float64 (lines 371-374)
\* 'Churn Count' / total_churned * 100 is float64 arithmetic: every operation
\* yields the float64 nearest to its exact result, ties to the even mantissa.
\* A float64 is m * 2^e, m a natural of Precision bits written most
\* significant bit first, or zero with no bits at all.
\* (The service percentages of lines 158-164 are only compared with one
\* another; rounding keeps the order and the equality of quotients of counts
\* this small, so Frac holds them exactly.  The age percentages are added up,
\* where rounding shows.)
Precision == 53

Float64Zero == [ m |-> << >>, e |-> 0 ]

\* The natural n in binary, most significant bit first, no leading zero.
RECURSIVE Bits(_)
Bits(n) == IF n = 0 THEN << >> ELSE Append(Bits(n \div 2), n % 2)

Zeros(k) == [ i \in 1..k |-> 0 ]

RECURSIVE Strip(_)
Strip(bits) ==
  IF bits # << >> /\ Head(bits) = 0 THEN Strip(Tail(bits)) ELSE bits

\* bits + 1: the last 0 becomes 1 and the 1s after it 0.
Inc(bits) ==
  IF \A i \in 1..Len(bits) : bits[i] = 1 THEN << 1 >> \o Zeros(Len(bits))
  ELSE LET last == CHOOSE i \in 1..Len(bits) :
                     /\ bits[i] = 0
                     /\ \A j \in (i + 1)..Len(bits) : bits[j] = 1
       IN [ i \in 1..Len(bits) |->
              IF i < last THEN bits[i] ELSE IF i = last THEN 1 ELSE 0 ]

Reverse(bits) == [ i \in 1..Len(bits) |-> bits[Len(bits) + 1 - i] ]

\* low * k + carry, low written least significant bit first: the Len(low)
\* low bits of the result, in that order, and what is carried out above them.
\* The lower half is done first, its carry goes into the upper half.
RECURSIVE TimesSmall(_, _, _)
TimesSmall(low, k, carry) ==
  IF low = << >> THEN [ out |-> << >>, carry |-> carry ]
  ELSE IF Len(low) = 1
    THEN LET v == low[1] * k + carry
         IN [ out |-> << v % 2 >>, carry |-> v \div 2 ]
  ELSE LET half == Len(low) \div 2
           lower == TimesSmall(SubSeq(low, 1, half), k, carry)
           upper == TimesSmall(SubSeq(low, half + 1, Len(low)), k, lower.carry)
       IN [ out |-> lower.out \o upper.out, carry |-> upper.carry ]

\* a + b + carry, a and b of one length and least significant bit first: the
\* low bits of the sum, in that order, and the carry out.
RECURSIVE AddBits(_, _, _)
AddBits(a, b, carry) ==
  IF a = << >> THEN [ out |-> << >>, carry |-> carry ]
  ELSE IF Len(a) = 1
    THEN LET v == a[1] + b[1] + carry
         IN [ out |-> << v % 2 >>, carry |-> v \div 2 ]
  ELSE LET half == Len(a) \div 2
           lower == AddBits(SubSeq(a, 1, half), SubSeq(b, 1, half), carry)
           upper == AddBits(SubSeq(a, half + 1, Len(a)),
                            SubSeq(b, half + 1, Len(b)), lower.carry)
       IN [ out |-> lower.out \o upper.out, carry |-> upper.carry ]

\* Schoolbook division of dividend by n, bit by bit from the remainder r: the
\* quotient q (leading zeros kept) and the remainder left.  The left half is
\* done first, its remainder goes into the right.
RECURSIVE LongDivision(_, _, _)
LongDivision(dividend, n, r) ==
  IF dividend = << >> THEN [ q |-> << >>, r |-> r ]
  ELSE IF Len(dividend) = 1
    THEN LET r2 == 2 * r + dividend[1]
         IN IF r2 >= n THEN [ q |-> << 1 >>, r |-> r2 - n ]
            ELSE [ q |-> << 0 >>, r |-> r2 ]
  ELSE LET half == Len(dividend) \div 2
           left == LongDivision(SubSeq(dividend, 1, half), n, r)
           right == LongDivision(SubSeq(dividend, half + 1, Len(dividend)),
                                 n, left.r)
       IN [ q |-> left.q \o right.q, r |-> right.r ]

\* The float64 nearest to bits * 2^e (to that plus a non-zero amount below
\* one unit of bits when inexact, which needs bits longer than Precision),
\* ties to even.
RoundNearestEven(bits, e, inexact) ==
  IF bits = << >> THEN Float64Zero
  ELSE IF Len(bits) <= Precision
    THEN [ m |-> bits \o Zeros(Precision - Len(bits)),
           e |-> e - (Precision - Len(bits)) ]
  ELSE LET keep == SubSeq(bits, 1, Precision)
           rest == SubSeq(bits, Precision + 1, Len(bits))
           below == inexact \/ \E i \in 2..Len(rest) : rest[i] = 1
           up == rest[1] = 1 /\ (below \/ keep[Precision] = 1)
           m == IF up THEN Inc(keep) ELSE keep
       IN IF Len(m) > Precision
            THEN [ m |-> SubSeq(m, 1, Precision), e |-> e + Len(rest) + 1 ]
            ELSE [ m |-> m, e |-> e + Len(rest) ]

\* float(n) of an int n >= 0.
Float64(n) == RoundNearestEven(Bits(n), 0, FALSE)

\* a / b of ints a >= 0 and b > 0.
Float64Div(a, b) ==
  LET scale == Precision + 2 + Len(Bits(b))
      d == LongDivision(Bits(a) \o Zeros(scale), b, 0)
  IN RoundNearestEven(Strip(d.q), 0 - scale, d.r # 0)

\* x * k of a float64 x and an int k >= 0.
Float64Mul(x, k) ==
  LET p == TimesSmall(Reverse(x.m), k, 0)
  IN RoundNearestEven(Strip(Bits(p.carry) \o Reverse(p.out)), x.e, FALSE)

\* x + y.
Float64Add(x, y) ==
  IF x.m = << >> THEN y
  ELSE IF y.m = << >> THEN x
  ELSE LET e == IF x.e < y.e THEN x.e ELSE y.e
           a == x.m \o Zeros(x.e - e)
           b == y.m \o Zeros(y.e - e)
           w == IF Len(a) > Len(b) THEN Len(a) ELSE Len(b)
           sum == AddBits(Reverse(Zeros(w - Len(a)) \o a),
                          Reverse(Zeros(w - Len(b)) \o b), 0)
       IN RoundNearestEven(Strip(Bits(sum.carry) \o Reverse(sum.out)), e,
                           FALSE)

\* Line 367: df_filtered['Age Group'].value_counts(), the number of rows of
\* every value the column holds.
ValueCounts(frame, col) ==
  LET held == { frame.rows[i][col] : i \in 1..Len(frame.rows) }
  IN [ v \in held |-> Shape0(WhereEq(frame, col, v)) ]

\* Lines 368-374: the columns 'Churn Count' and 'Churn Percentage', the
\* latter (count / total_churned) * 100.
WithPercentage(counts, total_churned) ==
  [ v \in DOMAIN counts |->
      [ count |-> counts[v],
        pct |-> Float64Mul(Float64Div(counts[v], total_churned), 100) ] ]

\* pd.cut(..., bins=TENURE_BINS, labels=TENURE_LABELS, right=True): bin k is
\* the interval (TENURE_BINS[k], TENURE_BINS[k+1]], the last one unbounded
\* above; a value in no bin gets NaN.
TenureCut(t) ==
  LET n == Len(TENURE_BINS)
      hit == { k \in 1..n :
                 /\ TENURE_BINS[k] < t
                 /\ (k < n => t <= TENURE_BINS[k + 1]) }
  IN IF hit = {} THEN NaN ELSE TENURE_LABELS[CHOOSE k \in hit : TRUE]

\* Lines 43-50.
preprocess_data(frame) ==
  LET tenure == Column(frame, "Tenure in Months")
  IN WithColumn(frame, "Tenure Group",
                [ i \in 1..Len(tenure) |-> TenureCut(tenure[i]) ])

\* Lines 57-61: pd.Categorical keeps a value that is one of the categories
\* and turns any other into NaN.
AsCategorical(v) ==
  IF \E k \in 1..Len(TENURE_LABELS) : TENURE_LABELS[k] = v THEN v ELSE NaN

plot_cltv_trend(frame) ==
  LET group == Column(frame, "Tenure Group")
  IN WithColumn(frame, "Tenure Group",
                [ i \in 1..Len(group) |-> AsCategorical(group[i]) ])

\* ------------------------------------------------------------------- state
VARIABLES
  telco,              \* the frame telco.csv holds
  cache,              \* the st.cache_data entry of load_data('telco.csv')
  sessions,           \* the sessions connected to the server
  widget,             \* per session: the values of the two sidebar radios
  pc,                 \* per session: the statement the script run is at
  runs,               \* per session: the script runs started so far
  names,              \* per session: the names bound in the run's namespace
  err,                \* per session: the exception that ended the run
  df,
  gender_filter,
  churn_filter,
  df_filtered,
  service_churn_dict,
  churn_count,        \* per session and service: churn_count of its iteration
  total_users,        \* per session and service: total_users of its iteration
  service_churn_df,
  top_5_services,
  churn_counts_by_age \* per session and age group present: rows and share

vars ==
  << telco, cache, sessions, widget, pc, runs, names, err, df, gender_filter,
     churn_filter, df_filtered, service_churn_dict, churn_count, total_users,
     service_churn_df, top_5_services, churn_counts_by_age >>

\* The namespace of one run: every variable but telco, cache, sessions,
\* widget, pc, runs.
EmptyFrame == [ cols |-> {}, rows |-> << >> ]
NoCache == [ hit |-> FALSE, value |-> EmptyFrame ]
DefaultWidget == [ gender |-> "All", churn |-> "Yes" ]

Bound(s, name) == name \in names[s]

\* A fresh namespace for session s: no name of the script is bound.
FreshNamespace(s) ==
  /\ names' = [ names EXCEPT ![s] = {} ]
  /\ err' = [ err EXCEPT ![s] = "none" ]
  /\ df' = [ df EXCEPT ![s] = EmptyFrame ]
  /\ gender_filter' = [ gender_filter EXCEPT ![s] = "All" ]
  /\ churn_filter' = [ churn_filter EXCEPT ![s] = "Yes" ]
  /\ df_filtered' = [ df_filtered EXCEPT ![s] = EmptyFrame ]
  /\ service_churn_dict' = [ service_churn_dict EXCEPT ![s] = << >> ]
  /\ churn_count' = [ churn_count EXCEPT ![s] = NoCounts ]
  /\ total_users' = [ total_users EXCEPT ![s] = NoCounts ]
  /\ service_churn_df' = [ service_churn_df EXCEPT ![s] = << >> ]
  /\ top_5_services' = [ top_5_services EXCEPT ![s] = << >> ]
  /\ churn_counts_by_age' = [ churn_counts_by_age EXCEPT ![s] = NoCounts ]

Start(active) ==
  /\ cache = NoCache
  /\ sessions = active
  /\ widget = [ s \in SessionIds |-> DefaultWidget ]
  /\ pc = [ s \in SessionIds |-> IF s \in active THEN "load" ELSE "idle" ]
  /\ runs = [ s \in SessionIds |-> IF s \in active THEN 1 ELSE 0 ]
  /\ names = [ s \in SessionIds |-> {} ]
  /\ err = [ s \in SessionIds |-> "none" ]
  /\ df = [ s \in SessionIds |-> EmptyFrame ]
  /\ gender_filter = [ s \in SessionIds |-> "All" ]
  /\ churn_filter = [ s \in SessionIds |-> "Yes" ]
  /\ df_filtered = [ s \in SessionIds |-> EmptyFrame ]
  /\ service_churn_dict = [ s \in SessionIds |-> << >> ]
  /\ churn_count = [ s \in SessionIds |-> NoCounts ]
  /\ total_users = [ s \in SessionIds |-> NoCounts ]
  /\ service_churn_df = [ s \in SessionIds |-> << >> ]
  /\ top_5_services = [ s \in SessionIds |-> << >> ]
  /\ churn_counts_by_age = [ s \in SessionIds |-> NoCounts ]

InitWith(active) ==
  /\ telco \in Datasets
  /\ Start(active)

\* One browser session opens the page.
Init == InitWith({1})

\* The file two sessions share: the first MaxRows customers, every column
\* present.
SharedDatasets == { MakeFrame([ i \in 1..MaxRows |-> i ], {}) }

\* Two browser sessions open the page on the same server: both run the script
\* over the one cache of load_data.
InitShared ==
  /\ InitWith({1, 2})
  /\ telco \in SharedDatasets

\* Files of exactly MaxAgeRows customers, every column present: enough rows
\* for an age group to hold a share of the rows that no float64 holds.
AgeDatasets ==
  { MakeFrame(idx, {}) : idx \in { r \in RowSeqs(MaxAgeRows) :
                                     Len(r) = MaxAgeRows } }

InitAges ==
  /\ telco \in AgeDatasets
  /\ Start({1})

\* The runs a session makes: MaxRuns when alone, one fewer beside another.
RunLimit == IF Cardinality(sessions) > 1 THEN MaxRuns - 1 ELSE MaxRuns

\* ----------------------------------------------------------------- actions
Goto(s, label) == pc' = [ pc EXCEPT ![s] = label ]
Bind(s, new) == names' = [ names EXCEPT ![s] = @ \cup new ]
Raise(s, exception) ==
  /\ err' = [ err EXCEPT ![s] = exception ]
  /\ Goto(s, "error")

\* Line 98: df = load_data('telco.csv').  st.cache_data runs load_data on the
\* first call and stores its result; every call returns a copy of the entry.
LoadData(s) ==
  /\ pc[s] = "load"
  /\ LET entry == IF cache.hit THEN cache
                  ELSE [ hit |-> TRUE, value |-> load_data(telco) ]
     IN /\ cache' = entry
        /\ df' = [ df EXCEPT ![s] = entry.value ]
  /\ Bind(s, {"df"})
  /\ Goto(s, "sidebar")
  /\ UNCHANGED << telco, sessions, widget, runs, err, gender_filter,
                  churn_filter, df_filtered, service_churn_dict, churn_count,
                  total_users, service_churn_df, top_5_services,
                  churn_counts_by_age >>

\* Lines 126-134 with the selection kept in one place for the whole server:
\* the radios return the selection of whichever session set it.
SidebarGlobal(s) ==
  /\ pc[s] = "sidebar"
  /\ \E t \in sessions :
       /\ gender_filter' = [ gender_filter EXCEPT ![s] = widget[t].gender ]
       /\ churn_filter' = [ churn_filter EXCEPT ![s] = widget[t].churn ]
  /\ Bind(s, {"gender_filter", "churn_filter"})
  /\ Goto(s, "filter")
  /\ UNCHANGED << telco, cache, sessions, widget, runs, err, df, df_filtered,
                  service_churn_dict, churn_count, total_users,
                  service_churn_df, top_5_services,
                  churn_counts_by_age >>

\* Lines 126-134: the two radios return the session's current selection.
Sidebar(s) ==
  /\ pc[s] = "sidebar"
  /\ gender_filter' = [ gender_filter EXCEPT ![s] = widget[s].gender ]
  /\ churn_filter' = [ churn_filter EXCEPT ![s] = widget[s].churn ]
  /\ Bind(s, {"gender_filter", "churn_filter"})
  /\ Goto(s, "filter")
  /\ UNCHANGED << telco, cache, sessions, widget, runs, err, df, df_filtered,
                  service_churn_dict, churn_count, total_users,
                  service_churn_df, top_5_services,
                  churn_counts_by_age >>

\* Lines 139-144 written as a filter of the cached frame in place.
FilterDataInPlace(s) ==
  /\ pc[s] = "filter"
  /\ LET kept == FilterFrame(df[s], gender_filter[s], churn_filter[s])
     IN /\ df_filtered' = [ df_filtered EXCEPT ![s] = kept ]
        /\ cache' = [ cache EXCEPT !.value = kept ]
  /\ Bind(s, {"df_filtered"})
  /\ Goto(s, "services")
  /\ UNCHANGED << telco, sessions, widget, runs, err, df, gender_filter,
                  churn_filter, service_churn_dict, churn_count, total_users,
                  service_churn_df, top_5_services,
                  churn_counts_by_age >>

\* Lines 139-144: df_filtered is a filtered copy of df.
FilterData(s) ==
  /\ pc[s] = "filter"
  /\ df_filtered' =
       [ df_filtered EXCEPT
           ![s] = FilterFrame(df[s], gender_filter[s], churn_filter[s]) ]
  /\ Bind(s, {"df_filtered"})
  /\ Goto(s, "services")
  /\ UNCHANGED << telco, cache, sessions, widget, runs, err, df, gender_filter,
                  churn_filter, service_churn_dict, churn_count, total_users,
                  service_churn_df, top_5_services,
                  churn_counts_by_age >>

\* Lines 151-166: the loop over service_columns, then service_churn_df.  A
\* column that df lacks ends the run with a KeyError at its iteration.
ComputeServiceChurn(s) ==
  /\ pc[s] = "services"
  /\ LET r == ServiceChurn(df[s], df_filtered[s])
     IN /\ service_churn_dict' = [ service_churn_dict EXCEPT ![s] = r.dict ]
        /\ churn_count' = [ churn_count EXCEPT ![s] = r.churn_count ]
        /\ total_users' = [ total_users EXCEPT ![s] = r.total_users ]
        /\ IF r.err = "none"
             THEN /\ service_churn_df' =
                       [ service_churn_df EXCEPT ![s] = ToDataFrame(r.dict) ]
                  /\ Bind(s, {"service_churn_dict", "service_churn_df"})
                  /\ Goto(s, "top")
                  /\ UNCHANGED err
             ELSE /\ Bind(s, {"service_churn_dict"})
                  /\ Raise(s, r.err)
                  /\ UNCHANGED service_churn_df
  /\ UNCHANGED << telco, cache, sessions, widget, runs, df, gender_filter,
                  churn_filter, df_filtered, top_5_services,
                  churn_counts_by_age >>

\* Line 172: top_5_services = service_churn_df.sort_values(...).head(10).
TopServices(s) ==
  /\ pc[s] = "top"
  /\ \E tie \in TieBreaks :
       top_5_services' =
         [ top_5_services EXCEPT
             ![s] = HeadRows(SortValues(service_churn_df[s], tie), TopK) ]
  /\ Bind(s, {"top_5_services"})
  /\ Goto(s, "section2")
  /\ UNCHANGED << telco, cache, sessions, widget, runs, err, df, gender_filter,
                  churn_filter, df_filtered, service_churn_dict, churn_count,
                  total_users, service_churn_df,
                  churn_counts_by_age >>

\* Lines 218-303: top_churn_reasons and top_churn_categories are bound only
\* when df_filtered has rows; line 296 reads top_churn_reasons either way.
Section2(s) ==
  /\ pc[s] = "section2"
  /\ IF Shape0(df_filtered[s]) = 0
       THEN /\ Raise(s, "NameError")
            /\ UNCHANGED names
       ELSE /\ Bind(s, {"top_churn_reasons", "top_churn_categories"})
            /\ Goto(s, "section3")
            /\ UNCHANGED err
  /\ UNCHANGED << telco, cache, sessions, widget, runs, df, gender_filter,
                  churn_filter, df_filtered, service_churn_dict, churn_count,
                  total_users, service_churn_df, top_5_services,
                  churn_counts_by_age >>

\* Lines 352-407: 'Age Group' is assigned only when df_filtered has rows;
\* line 389 reads the column either way.
Section3(s) ==
  /\ pc[s] = "section3"
  /\ IF Shape0(df_filtered[s]) # 0
       THEN LET grouped == WithColumn(df_filtered[s], "Age Group",
                                      AgeGroups(df_filtered[s]))
            IN /\ df_filtered' = [ df_filtered EXCEPT ![s] = grouped ]
               /\ churn_counts_by_age' =
                    [ churn_counts_by_age EXCEPT
                        ![s] = WithPercentage(ValueCounts(grouped, "Age Group"),
                                              Shape0(grouped)) ]
               /\ Bind(s, {"churn_counts_by_age", "total_churned"})
               /\ Goto(s, "competition")
               /\ UNCHANGED err
       ELSE /\ Raise(s, "KeyError")
            /\ UNCHANGED << df_filtered, names, churn_counts_by_age >>
  /\ UNCHANGED << telco, cache, sessions, widget, runs, df, gender_filter,
                  churn_filter, service_churn_dict, churn_count, total_users,
                  service_churn_df, top_5_services >>

\* Lines 435-506: 'Age Group' is assigned again, by age_category_competition.
Competition(s) ==
  /\ pc[s] = "competition"
  /\ df_filtered' =
       [ df_filtered EXCEPT
           ![s] = WithColumn(@, "Age Group", CompetitionAgeGroups(@)) ]
  /\ Goto(s, "tenure")
  /\ UNCHANGED << telco, cache, sessions, widget, runs, names, err, df,
                  gender_filter, churn_filter, service_churn_dict, churn_count,
                  total_users, service_churn_df, top_5_services,
                  churn_counts_by_age >>

\* Line 511 written as preprocess_data(df): the column lands in df, and
\* df_filtered becomes the frame returned.
PreprocessOnDf(s) ==
  /\ pc[s] = "tenure"
  /\ df' = [ df EXCEPT ![s] = preprocess_data(@) ]
  /\ df_filtered' = [ df_filtered EXCEPT ![s] = preprocess_data(df[s]) ]
  /\ Bind(s, {"total_churned"})
  /\ Goto(s, "cltv")
  /\ UNCHANGED << telco, cache, sessions, widget, runs, err,
                  gender_filter, churn_filter, service_churn_dict, churn_count,
                  total_users, service_churn_df, top_5_services,
                  churn_counts_by_age >>

\* Lines 511-532: df_filtered = preprocess_data(df_filtered), which assigns
\* 'Tenure Group' in the frame it is given; total_churned = len(df_filtered).
Preprocess(s) ==
  /\ pc[s] = "tenure"
  /\ df_filtered' = [ df_filtered EXCEPT ![s] = preprocess_data(@) ]
  /\ Bind(s, {"total_churned"})
  /\ Goto(s, "cltv")
  /\ UNCHANGED << telco, cache, sessions, widget, runs, err, df,
                  gender_filter, churn_filter, service_churn_dict, churn_count,
                  total_users, service_churn_df, top_5_services,
                  churn_counts_by_age >>

\* Lines 535-603: plot_cltv_trend(df_filtered) reassigns 'Tenure Group' in
\* df_filtered; the rest of the script only displays.
PlotCltv(s) ==
  /\ pc[s] = "cltv"
  /\ df_filtered' = [ df_filtered EXCEPT ![s] = plot_cltv_trend(@) ]
  /\ Goto(s, "done")
  /\ UNCHANGED << telco, cache, sessions, widget, runs, names, err, df,
                  gender_filter, churn_filter, service_churn_dict, churn_count,
                  total_users, service_churn_df, top_5_services,
                  churn_counts_by_age >>

\* The user sets the radios (lines 133-134) to gender and churn: Streamlit
\* starts the script again from its first line, in a fresh namespace.
Rerun(s, gender, churn) ==
  /\ pc[s] # "idle"
  /\ runs[s] < RunLimit
  /\ widget' = [ widget EXCEPT ![s] = [ gender |-> gender, churn |-> churn ] ]
  /\ runs' = [ runs EXCEPT ![s] = @ + 1 ]
  /\ FreshNamespace(s)
  /\ Goto(s, "load")
  /\ UNCHANGED << telco, cache, sessions >>

Step(s) ==
  \/ LoadData(s)
  \/ Sidebar(s)
  \/ FilterData(s)
  \/ ComputeServiceChurn(s)
  \/ TopServices(s)
  \/ Section2(s)
  \/ Section3(s)
  \/ Competition(s)
  \/ Preprocess(s)
  \/ PlotCltv(s)
  \/ \E gender \in GenderOptions, churn \in ChurnOptions : Rerun(s, gender, churn)

Next == \E s \in sessions : Step(s)

Spec == Init /\ [][Next]_vars

\* Two sessions, their steps interleaved in any order.
SpecShared == InitShared /\ [][Next]_vars

SpecAges == InitAges /\ [][Next]_vars

\* ------------------------------------------------------------------ claims
\* The statistics of the run of session s exist (line 166 has run).
Computed(s) == Bound(s, "service_churn_df")
\* The ranking of the run of session s exists (line 172 has run).
Ranked(s) == Bound(s, "top_5_services")

Pct(s, service) ==
  LET i == CHOOSE k \in 1..Len(service_churn_dict[s]) :
             service_churn_dict[s][k].service = service
  IN service_churn_dict[s][i].pct

\* The collection the statistics of session s are computed for: df narrowed
\* to the selected gender.
Current(s) == GenderFiltered(df[s], gender_filter[s])

\* C1: for every service and every selection, the stored percentage is
\* 100 x (subscribers of the service that count as churned) / (subscribers
\* of the service), both counted over the current gender-filtered collection.
C1_SameCollection ==
  \A s \in sessions :
    Computed(s) =>
      \A service \in Services :
        LET subscribers == WhereEq(Current(s), service, "Yes")
            churned == WhereEq(subscribers, "Churn Label", churn_filter[s])
        IN Shape0(subscribers) > 0 =>
             Pct(s, service) = Frac(100 * Shape0(churned), Shape0(subscribers))

\* C2: for every service and every selection, the numerator (churn_count) is
\* at most the denominator (total_users), and the stored percentage lies in
\* [0, 100].
C2_ChurnedAtMostSubscribers ==
  \A s \in sessions :
    /\ \A service \in DOMAIN churn_count[s] :
         /\ 0 <= churn_count[s][service]
         /\ churn_count[s][service] <= total_users[s][service]
    /\ \A i \in 1..Len(service_churn_dict[s]) :
         /\ FracLeq(Zero, service_churn_dict[s][i].pct)
         /\ FracLeq(service_churn_dict[s][i].pct, Hundred)

\* C2 witness: statistics where one service has some but not all of its
\* subscribers counted, and another has all of them counted.
C2_Witness ==
  \E s \in sessions :
    /\ Computed(s)
    /\ \E a, b \in Services :
         /\ 0 < churn_count[s][a] /\ churn_count[s][a] < total_users[s][a]
         /\ 0 < churn_count[s][b] /\ churn_count[s][b] = total_users[s][b]

\* C3: a service with zero subscribers (in df, or in the current collection)
\* has percentage exactly 0, no run ends in a ZeroDivisionError, and an empty
\* df gives subscriber count 0, churned count 0 and rate 0 for every service.
C3_ZeroSubscribersZeroRate ==
  \A s \in sessions :
    /\ err[s] # "ZeroDivisionError"
    /\ Computed(s) =>
         /\ \A service \in Services :
              (\/ total_users[s][service] = 0
               \/ Shape0(WhereEq(Current(s), service, "Yes")) = 0)
                => Pct(s, service) = Zero
         /\ Shape0(df[s]) = 0 =>
              /\ Len(service_churn_dict[s]) = Len(service_columns)
              /\ \A service \in Services :
                   /\ total_users[s][service] = 0
                   /\ churn_count[s][service] = 0
                   /\ Pct(s, service) = Zero

\* C3 witness: statistics over a non-empty df in which one service has no
\* subscriber at all and another has a non-zero percentage.
C3_Witness ==
  \E s \in sessions :
    /\ Computed(s)
    /\ Shape0(df[s]) > 0
    /\ \E a, b \in Services :
         /\ total_users[s][a] = 0
         /\ Pct(s, a) = Zero
         /\ Pct(s, b) # Zero

\* C4: for every selection, churn status "No" included, the records counted
\* in the numerator are exactly the service's subscribers (of the current
\* collection) whose Churn Label is "Yes".
C4_NumeratorIsChurnYes ==
  \A s \in sessions :
    Computed(s) =>
      \A service \in Services :
        churn_count[s][service] =
          Shape0(WhereEq(WhereEq(Current(s), service, "Yes"), "Churn Label", "Yes"))

\* C5: a name of service_columns that is not a column of the table yields an
\* entry with rate 0; no lookup error is raised and the entries of the other
\* services are produced.
C5_UnknownFeatureIsZero ==
  \A s \in sessions :
    Bound(s, "service_churn_dict") =>
      /\ err[s] # "KeyError"
      /\ Computed(s)
      /\ \A service \in Services :
           /\ \E i \in 1..Len(service_churn_dict[s]) :
                service_churn_dict[s][i].service = service
           /\ service \notin df[s].cols => Pct(s, service) = Zero

\* Position of a service in service_columns.
ColumnIndex(service) ==
  CHOOSE i \in 1..Len(service_columns) : service_columns[i] = service

\* Every row of stats occurs in rows exactly once, and rows holds nothing else.
SameRows(rows, stats) ==
  /\ Len(rows) = Len(stats)
  /\ \A i \in 1..Len(stats) :
       Cardinality({ k \in 1..Len(rows) : rows[k] = stats[i] }) = 1

NonIncreasing(rows) ==
  \A i, j \in 1..Len(rows) : i < j => FracLeq(rows[j].pct, rows[i].pct)

\* C6: the top-services list has min(10, number of services) entries, each a
\* distinct row of the statistics, in non-increasing order of percentage, and
\* no row left out has a higher percentage than a listed one; with k at least
\* the number of services, head(k) of the sorted statistics drops and
\* duplicates nothing.
C6_TopK ==
  \A s \in sessions :
    Ranked(s) =>
      LET top == top_5_services[s]
          stats == service_churn_df[s]
          listed == { top[i].service : i \in 1..Len(top) }
      IN /\ Len(top) = (IF TopK < Len(stats) THEN TopK ELSE Len(stats))
         /\ \A i \in 1..Len(top) : \E k \in 1..Len(stats) : stats[k] = top[i]
         /\ Cardinality(listed) = Len(top)
         /\ NonIncreasing(top)
         /\ \A k \in 1..Len(stats) :
              stats[k].service \notin listed =>
                \A i \in 1..Len(top) : FracLeq(stats[k].pct, top[i].pct)
         /\ pc[s] = "section2" =>
              \A k \in Len(stats)..(Len(stats) + 1) :
                \A tie \in TieBreaks :
                  LET all == HeadRows(SortValues(stats, tie), k)
                  IN SameRows(all, stats) /\ NonIncreasing(all)

\* C6 witness: a ranking whose statistics were not in descending order, so
\* that the list differs from the first ten rows of the statistics, holds at
\* least two different percentages, and leaves out a service that is not the
\* last of service_columns.
C6_Witness ==
  \E s \in sessions :
    /\ Ranked(s)
    /\ top_5_services[s] # HeadRows(service_churn_df[s], TopK)
    /\ top_5_services[s][1].pct # top_5_services[s][TopK].pct
    /\ \E i \in 1..Len(top_5_services[s]) :
         top_5_services[s][i].service = service_columns[Len(service_columns)]

\* C7: two services of equal percentage keep, in the ranking, the order they
\* have in service_columns, and of a tie across the cut-off the service
\* earlier in service_columns is the one kept.
C7_StableTies ==
  \A s \in sessions :
    Ranked(s) =>
      LET top == top_5_services[s]
          stats == service_churn_df[s]
          listed == { top[i].service : i \in 1..Len(top) }
      IN /\ \A i, j \in 1..Len(top) :
              (i < j /\ top[i].pct = top[j].pct) =>
                ColumnIndex(top[i].service) < ColumnIndex(top[j].service)
         /\ \A k \in 1..Len(stats) :
              stats[k].service \notin listed =>
                \A i \in 1..Len(top) :
                  top[i].pct = stats[k].pct =>
                    ColumnIndex(top[i].service) < ColumnIndex(stats[k].service)

\* C8: the statistics before sorting hold exactly one entry per name of
\* service_columns, in the order of service_columns.
C8_OnePerServiceInOrder ==
  \A s \in sessions :
    Computed(s) =>
      /\ Len(service_churn_df[s]) = Len(service_columns)
      /\ \A i \in 1..Len(service_columns) :
           service_churn_df[s][i].service = service_columns[i]

\* C8 witness: statistics under a gender selection in which some services
\* have percentage 0 and others do not.
C8_Witness ==
  \E s \in sessions :
    /\ Computed(s)
    /\ gender_filter[s] # "All"
    /\ \E i, j \in 1..Len(service_churn_df[s]) :
         /\ i < j
         /\ service_churn_df[s][i].pct = Zero
         /\ service_churn_df[s][j].pct # Zero

\* What a run alone over telco.csv under the selection computes.
StatsOf(file, gender, churn) ==
  ServiceChurn(load_data(file), FilterFrame(load_data(file), gender, churn)).dict

\* C9: whatever runs came before, the statistics a run produces are those
\* its dataset and its own selection determine.
C9_NoMemory ==
  \A s \in sessions :
    Computed(s) =>
      service_churn_dict[s] = StatsOf(telco, widget[s].gender, widget[s].churn)

\* C9 witness: statistics of a rerun that follows at least one other rerun,
\* under a selection that keeps some rows of a dataset and drops others.
C9_Witness ==
  \E s \in sessions :
    /\ Computed(s)
    /\ runs[s] >= 3
    /\ 0 < Shape0(df_filtered[s])
    /\ Shape0(df_filtered[s]) < Shape0(df[s])
    /\ \E i \in 1..Len(service_churn_dict[s]) : service_churn_dict[s][i].pct # Zero

\* C10: a run leaves the loaded dataset as it was: df, and the cache entry it
\* is copied from, hold the rows, columns and values of telco.csv at every
\* point of every run.
C10_InputUntouched ==
  /\ cache.hit => cache.value = load_data(telco)
  /\ \A s \in sessions : Bound(s, "df") => df[s] = load_data(telco)

\* C10 witness: a finished run whose df_filtered dropped rows of df and
\* carries both derived columns.
C10_Witness ==
  \E s \in sessions :
    /\ pc[s] = "done"
    /\ {"Age Group", "Tenure Group"} \subseteq df_filtered[s].cols
    /\ Shape0(df_filtered[s]) < Shape0(df[s])
    /\ df[s].cols = BaseColumns

\* C11: when two sessions run the script at once over the same loaded
\* dataset, under any interleaving of their steps, each session's df, counts
\* and statistics are those of a run alone over telco.csv under its own
\* selection, and the one value the sessions share, the cache entry, stays the
\* loaded file.
C11_EachAsIfAlone ==
  /\ cache.hit => cache.value = load_data(telco)
  /\ \A s \in sessions :
       /\ Bound(s, "df") => df[s] = load_data(telco)
       /\ Computed(s) =>
            LET loaded == load_data(telco)
                alone == ServiceChurn(loaded,
                           FilterFrame(loaded, widget[s].gender, widget[s].churn))
            IN /\ service_churn_dict[s] = alone.dict
               /\ churn_count[s] = alone.churn_count
               /\ total_users[s] = alone.total_users
               /\ service_churn_df[s] = ToDataFrame(alone.dict)

\* C11 witness: two sessions hold their statistics at the same moment, under
\* different selections and with different results, one of them already past
\* the sections that write df_filtered.
C11_Witness ==
  \E s, t \in sessions :
    /\ s # t
    /\ Computed(s) /\ Computed(t)
    /\ widget[s] # widget[t]
    /\ service_churn_dict[s] # service_churn_dict[t]
    /\ pc[s] = "top"
    /\ pc[t] = "done"

\* C12: under every selection, one that leaves df_filtered empty included, a
\* run over a table with all its columns raises no unhandled error: every
\* name and column a statement reads was defined on the path taken, so no
\* run ends in an exception.
C12_RunsToEnd ==
  \A s \in sessions :
    (Bound(s, "df") /\ df[s].cols = BaseColumns) => err[s] = "none"

\* The months the k-th label of TENURE_LABELS names: 0 to 6, 7 to 12, ...,
\* 49 to 60, 61 and more.
LabelCovers(k, t) ==
  /\ (IF k = 1 THEN 0 ELSE TENURE_BINS[k] + 1) <= t
  /\ k < Len(TENURE_LABELS) => t <= TENURE_BINS[k + 1]

\* C13: once preprocess_data has run, every row whose 'Tenure in Months' is
\* non-negative carries one of the seven TENURE_LABELS, and the months that
\* label names contain the row's tenure; no such row is without a group.
C13_EveryTenureLabelled ==
  \A s \in sessions :
    "Tenure Group" \in df_filtered[s].cols =>
      \A i \in 1..Shape0(df_filtered[s]) :
        LET t == df_filtered[s].rows[i]["Tenure in Months"]
            g == df_filtered[s].rows[i]["Tenure Group"]
        IN t >= 0 =>
             \E k \in 1..Len(TENURE_LABELS) :
               g = TENURE_LABELS[k] /\ LabelCovers(k, t)

\* The ages the two grouping functions are compared on.
Ages == (0 - MaxAge)..MaxAge

\* The groups of the age table, each with the group of the competition chart
\* it corresponds to.
Corresponding ==
  [ under |-> << "(Under 30 years)", "Under 30" >>,
    middle |-> << "(30-50 years)", "30-50" >>,
    over |-> << "(Over 50 years)", "50+" >> ]

\* The band an age lies in: below 30, from 30 up to 49, 50 and above.
Band(age) ==
  IF age < 30 THEN "under" ELSE IF age < 50 THEN "middle" ELSE "over"

\* The float64 after x.
NextUp(x) == RoundNearestEven(Inc(x.m), x.e, FALSE)

\* x and y are at most two float64 apart.
WithinTwoUlps(x, y) ==
  \/ y \in { x, NextUp(x), NextUp(NextUp(x)) }
  \/ x \in { NextUp(y), NextUp(NextUp(y)) }

RECURSIVE SumCounts(_, _)
SumCounts(counts, groups) ==
  IF groups = {} THEN 0
  ELSE LET g == CHOOSE x \in groups : TRUE
       IN counts[g].count + SumCounts(counts, groups \ {g})

\* The percentages of counts added up in the order given.
RECURSIVE SumPercentages(_, _)
SumPercentages(counts, order) ==
  IF order = << >> THEN Float64Zero
  ELSE Float64Add(SumPercentages(counts, SubSeq(order, 1, Len(order) - 1)),
                  counts[order[Len(order)]].pct)

\* The orders the groups of counts can be added up in.
Orders(counts) ==
  { order \in [ 1..Cardinality(DOMAIN counts) -> DOMAIN counts ] :
      \A i, j \in DOMAIN order : i # j => order[i] # order[j] }

\* Both functions put every age in exactly one group, the one of its band,
\* and in corresponding groups.
SameBands ==
  \A age \in Ages :
    LET labels == { Corresponding[b][1] : b \in DOMAIN Corresponding }
        names_ == { Corresponding[b][2] : b \in DOMAIN Corresponding }
    IN /\ Cardinality({ g \in labels : age_category(age) = g }) = 1
       /\ Cardinality({ g \in names_ : age_category_competition(age) = g }) = 1
       /\ age_category(age) = Corresponding[Band(age)][1]
       /\ age_category_competition(age) = Corresponding[Band(age)][2]

\* The age table of session s counts every row of df_filtered once, in the
\* group of its band, and df_filtered carries that group (after line 443 the
\* corresponding group of the competition chart).
CountsPartitionRows(s) ==
  LET counts == churn_counts_by_age[s]
      frame == df_filtered[s]
      which == IF pc[s] = "competition" THEN 1 ELSE 2
  IN /\ Shape0(frame) # 0
     /\ SumCounts(counts, DOMAIN counts) = Shape0(frame)
     /\ \A i \in 1..Shape0(frame) :
          frame.rows[i]["Age Group"] =
            Corresponding[Band(frame.rows[i]["Age"])][which]
     /\ \A g \in DOMAIN counts :
          /\ counts[g].count =
               Cardinality({ i \in 1..Shape0(frame) :
                               Corresponding[Band(frame.rows[i]["Age"])][1] = g })
          /\ counts[g].pct =
               Float64Mul(Float64Div(counts[g].count, Shape0(frame)), 100)

\* C14: age_category and age_category_competition put every age in exactly
\* one group, the one of its band (below 30, 30 to 49, 50 and above), and in
\* corresponding groups; so the per-group counts of a non-empty df_filtered
\* sum to its row count and the percentages sum to 100.
C14_AgeGroupsPartition ==
  /\ SameBands
  /\ \A s \in sessions :
       Bound(s, "churn_counts_by_age") =>
         /\ CountsPartitionRows(s)
         /\ \A order \in Orders(churn_counts_by_age[s]) :
              SumPercentages(churn_counts_by_age[s], order) = Float64(100)

\* C14, amended: as above, but the percentages, float64 values each rounded
\* from count / total * 100, sum to 100 only up to rounding: whatever the
\* order they are added in, the sum is within two float64 of 100.
C14_AgeGroupsPartitionRounded ==
  /\ SameBands
  /\ \A s \in sessions :
       Bound(s, "churn_counts_by_age") =>
         /\ CountsPartitionRows(s)
         /\ \A order \in Orders(churn_counts_by_age[s]) :
              WithinTwoUlps(SumPercentages(churn_counts_by_age[s], order),
                            Float64(100))

\* The age table of a session counts two groups, one of them holding a
\* customer aged exactly 30, and its percentages do not add up to 100.
C14_Witness ==
  \E s \in sessions :
    /\ pc[s] = "competition"
    /\ Bound(s, "churn_counts_by_age")
    /\ Cardinality(DOMAIN churn_counts_by_age[s]) = 2
    /\ \E i \in 1..Shape0(df_filtered[s]) :
         /\ df_filtered[s].rows[i]["Age"] = 30
         /\ df_filtered[s].rows[i]["Age Group"] = "(30-50 years)"
    /\ \E order \in Orders(churn_counts_by_age[s]) :
         SumPercentages(churn_counts_by_age[s], order) # Float64(100)

====
